---- MODULE Spec2Model ----
(***************************************************************************)
(* The concurrent summarization pipeline of src/src/model.py:              *)
(* code_to_text schedules one asyncio task per non-ignored file            *)
(* (null_summary for over-budget prompts, fetch_summary otherwise) and     *)
(* gathers them; fetch_summary consults a TTLCache, else POSTs through the *)
(* shared httpx.AsyncClient and resumes when the transport answers.        *)
(*                                                                         *)
(* Execution is asyncio's: one thread, a FIFO ready queue, tasks that run  *)
(* from one suspension point to the next without interleaving.  Each       *)
(* action below is one such uninterrupted run.                             *)
(*                                                                         *)
(* Strings.  A path is a sequence of characters.  A prompt, a template and *)
(* a file's contents are sequences of runs [w |-> word, n |-> count]: n    *)
(* whitespace-separated copies of the word w, adjacent runs of one word    *)
(* merged, so that equal sequences are equal strings and str.split()       *)
(* counts the sum of the n.  A completion text is a sequence of            *)
(* characters.                                                             *)
(***************************************************************************)
EXTENDS Integers, Sequences, FiniteSets, TLC

VARIABLES
    files,         \* code_to_text's argument: <<path, contents>> pairs in dict order
    ignore_files,  \* code_to_text's argument: the ignore list
    prompt,        \* code_to_text's argument: the prompt template
    pc,            \* where code_to_text stands: idle, gather, done, failed (direct: no orchestrator)
    http_client,   \* the httpx.AsyncClient of the invocation: its state and the POSTs it was asked for
    cache,         \* the TTLCache: rendered prompt -> [value, expires]
    tasks,         \* the asyncio tasks, in creation order
    results,       \* what code_to_text returned
    now,           \* the last value time.monotonic() gave the TTLCache
    run,           \* which invocation of code_to_text this is
    prev_ok,       \* the caller's note: the previous invocation returned and every fetch of it succeeded
    environ        \* os.getenv('OPENAI_API_KEY'): the key, or None when it is not set

vars == <<files, ignore_files, prompt, pc, http_client, cache, tasks, results, now, run, prev_ok, environ>>

----------------------------------------------------------------------------
(* Program constants *)

MAX_TOKENS == 4096
TTL == 600
MAXSIZE == 500

(* Bounds of the model *)

MaxFiles == 2
MaxRuns == 2
MaxCalls == 2

----------------------------------------------------------------------------
(* Strings *)

\* fn in str(path): fn occurs in path as a contiguous substring
IsSubstring(fn, path) ==
    \E k \in 0..(Len(path) - Len(fn)) : SubSeq(path, k + 1, k + Len(fn)) = fn

\* concatenation of two run sequences, merging the runs that meet
Join(a, b) ==
    IF a = <<>> THEN b
    ELSE IF b = <<>> THEN a
    ELSE IF a[Len(a)].w = b[1].w
         THEN SubSeq(a, 1, Len(a) - 1)
              \o <<[w |-> b[1].w, n |-> a[Len(a)].n + b[1].n]>>
              \o SubSeq(b, 2, Len(b))
         ELSE a \o b

Word(w) == [slot |-> -1, w |-> w]
Slot(k) == [slot |-> k, w |-> ""]

\* str.format(contents) with one positional argument: a replacement field
\* {0} takes the contents, a field of any other index raises IndexError
RECURSIVE Format(_, _)
Format(tpl, contents) ==
    IF tpl = <<>> THEN [ok |-> TRUE, text |-> <<>>]
    ELSE LET rest == Format(Tail(tpl), contents)
             item == Head(tpl)
         IN  IF item.slot > 0 \/ ~rest.ok THEN [ok |-> FALSE, text |-> <<>>]
             ELSE IF item.slot = 0 THEN [ok |-> TRUE, text |-> Join(contents, rest.text)]
             ELSE [ok |-> TRUE, text |-> Join(<<[w |-> item.w, n |-> 1]>>, rest.text)]

\* len(prompt_code.split())
RECURSIVE PromptLen(_)
PromptLen(text) ==
    IF text = <<>> THEN 0 ELSE Head(text).n + PromptLen(Tail(text))

\* a mutant of Ignored: the path is compared whole with each entry
IgnoredWholePath(path, ign) ==
    \E j \in 1..Len(ign) : ign[j] = path

\* any(fn in str(path) for fn in ignore_files)
Ignored(path, ign) ==
    \E j \in 1..Len(ign) : IsSubstring(ign[j], path)

\* a mutant of ExceedsLimit: the budget is one token too wide
ExceedsLimitLate(prompt_len) == prompt_len > MAX_TOKENS + 1

\* a mutant of ExceedsLimit: a prompt of MAX_TOKENS tokens is over the limit
ExceedsLimitAtLimit(prompt_len) == prompt_len >= MAX_TOKENS

\* prompt_len > MAX_TOKENS
ExceedsLimit(prompt_len) == prompt_len > MAX_TOKENS

\* "Prompt exceeds max token limit: {}".format(prompt_len)
LimitMessage(prompt_len) ==
    <<"Prompt exceeds max token limit: ", ToString(prompt_len)>>

\* the fixed fallback text
Fallback == <<"Error generating file summary.">>

Strippable == {" ", "\""}

\* utils.format_sentence: trims surrounding whitespace and quotes
RECURSIVE FormatSentence(_)
FormatSentence(s) ==
    IF s = <<>> THEN s
    ELSE IF Head(s) \in Strippable THEN FormatSentence(Tail(s))
    ELSE IF s[Len(s)] \in Strippable THEN FormatSentence(SubSeq(s, 1, Len(s) - 1))
    ELSE s

----------------------------------------------------------------------------
(* The TTLCache(maxsize=500, ttl=600) of get_cache *)

EmptyCache == [k \in {} |-> [value |-> <<>>, expires |-> 0]]

\* a mutant of CacheContains: the key is never found
CacheContainsNever(c, key, time) == FALSE

\* a mutant of CacheContains: the expiry is not looked at
CacheContainsForever(c, key, time) == key \in DOMAIN c

\* TTLCache.__contains__ at timer() = time
CacheContains(c, key, time) ==
    key \in DOMAIN c /\ time < c[key].expires

\* TTLCache.__setitem__ at timer() = time: expired entries are dropped, the
\* oldest entry is evicted when a new key would exceed maxsize, and the
\* entry is written with expires = time + ttl
CacheSet(c, key, value, time) ==
    LET live == {k \in DOMAIN c : time < c[k].expires}
        full == key \notin live /\ Cardinality(live) + 1 > MAXSIZE
        old  == CHOOSE k \in live : \A j \in live : c[k].expires <= c[j].expires
        kept == IF full THEN live \ {old} ELSE live
    IN  [k \in kept \cup {key} |->
            IF k = key THEN [value |-> value, expires |-> time + TTL] ELSE c[k]]

\* the values time.monotonic() takes in the model
Times == {0, TTL}

----------------------------------------------------------------------------
(* What the transport does with one POST *)

Resp(status, json, has_choices, choices) ==
    [kind |-> "response", status |-> status, json |-> json,
     has_choices |-> has_choices, choices |-> choices, exc |-> "none"]

Exc(e) ==
    [kind |-> "exception", status |-> 0, json |-> FALSE,
     has_choices |-> FALSE, choices |-> <<>>, exc |-> e]

NoResponse ==
    [kind |-> "none", status |-> 0, json |-> FALSE,
     has_choices |-> FALSE, choices |-> <<>>, exc |-> "none"]

RawTexts == { <<" ", "\"", "s", "\"">>, <<"t">> }

Outcomes ==
    { Resp(200, TRUE, TRUE, <<tx>>) : tx \in RawTexts }
    \cup { Resp(200, TRUE, TRUE, <<>>),       \* {"choices": []}
           Resp(200, TRUE, FALSE, <<>>),      \* no "choices" key
           Resp(200, FALSE, FALSE, <<>>),     \* a body that is not JSON
           Resp(201, TRUE, TRUE, << <<"t">> >>),
           Resp(500, TRUE, FALSE, <<>>),
           Exc("ReadTimeout"),
           Exc("ConnectError") }

\* what the API does with a POST that carries no key: 401, unless the
\* transport fails first
NoKeyOutcomes ==
    { Resp(401, TRUE, FALSE, <<>>),
      Exc("ReadTimeout"),
      Exc("ConnectError") }

AllOutcomes == Outcomes \cup NoKeyOutcomes

\* the values of os.getenv('OPENAI_API_KEY')
Environs == {"sk", "None"}

\* the outcomes of a POST sent with the key of the environment
Answers(key) == IF key = "None" THEN NoKeyOutcomes ELSE Outcomes

\* f"Bearer {os.getenv('OPENAI_API_KEY')}"
Authorization(key) == <<"Bearer ", key>>

\* a mutant of Post: the request is sent a second time
PostTwice(client, key) ==
    [client EXCEPT !.posts = @ + 2, !.auth = Authorization(key)]

\* http_client.post(...), lines 122-133: one request, with the key read
\* from the environment in its Authorization header
Post(client, key) ==
    [client EXCEPT !.posts = @ + 1, !.auth = Authorization(key)]

\* a mutant of GetCache: one cache is kept from call to call
GetCacheShared == cache

\* get_cache(): a new, empty TTLCache
GetCache == EmptyCache

\* get_http_client(): a new, open client that has sent nothing
GetHttpClient == [state |-> "open", posts |-> 0, auth |-> <<>>]

----------------------------------------------------------------------------
(* Tasks *)

FetchTask(file, prompt_code) ==
    [kind |-> "fetch", file |-> file, prompt |-> prompt_code, summary |-> <<>>,
     pc |-> "created", response |-> NoResponse, caught |-> "none",
     result |-> <<>>, exc |-> "none"]

NullTask(file, summary) ==
    [kind |-> "null", file |-> file, prompt |-> <<>>, summary |-> summary,
     pc |-> "created", response |-> NoResponse, caught |-> "none",
     result |-> <<>>, exc |-> "none"]

\* the for loop of code_to_text from the i-th file on: the tasks it creates,
\* and whether prompt.format raised
RECURSIVE ScheduleFrom(_, _, _, _)
ScheduleFrom(i, fs, ign, tpl) ==
    IF i > Len(fs) THEN [raised |-> FALSE, tasks |-> <<>>]
    ELSE LET path     == fs[i][1]
             contents == fs[i][2]
         IN  IF Ignored(path, ign) THEN ScheduleFrom(i + 1, fs, ign, tpl)
             ELSE LET prompt_code == Format(tpl, contents)
                      prompt_len  == PromptLen(prompt_code.text)
                      rest        == ScheduleFrom(i + 1, fs, ign, tpl)
                      task        == IF ExceedsLimit(prompt_len)
                                     THEN NullTask(path, LimitMessage(prompt_len))
                                     ELSE FetchTask(path, prompt_code.text)
                  IN  IF ~prompt_code.ok THEN [raised |-> TRUE, tasks |-> <<>>]
                      ELSE [raised |-> rest.raised, tasks |-> <<task>> \o rest.tasks]

\* a mutant of ReadyQueueDrained: a response is delivered at any time
ReadyQueueAny == TRUE

\* the event loop runs every step queued by create_task before it polls
\* the sockets again: no response is delivered while a task has not started
ReadyQueueDrained ==
    \A u \in 1..Len(tasks) : tasks[u].pc # "created"

\* the head of the event loop's ready queue: the first task not yet started
IsNext(t) ==
    /\ t \in 1..Len(tasks)
    /\ tasks[t].pc = "created"
    /\ \A u \in 1..(t - 1) : tasks[u].pc # "created"

\* a mutant of StartFetch: the cache is not consulted
StartFetchSkipsCache(task, c, t1, t2) ==
    [task EXCEPT !.pc = "awaiting"]

\* fetch_summary, lines 115-133: the cache lookup at timer() = t1, the read
\* of the cached value at timer() = t2, else the POST
StartFetch(task, c, t1, t2) ==
    IF CacheContains(c, task.prompt, t1)
    THEN IF CacheContains(c, task.prompt, t2)
         THEN [task EXCEPT !.pc = "done",
                           !.result = <<task.file, c[task.prompt].value>>]
         ELSE [task EXCEPT !.pc = "raised", !.exc = "KeyError"]
    ELSE [task EXCEPT !.pc = "awaiting"]

\* a mutant of OnException: the handler names OpenAIError alone
OnExceptionOpenAIOnly(e) ==
    IF e = "OpenAIError"
    THEN [text |-> Fallback, store |-> FALSE, caught |-> e, raised |-> "none"]
    ELSE [text |-> <<>>, store |-> FALSE, caught |-> "none", raised |-> e]

\* a mutant of OnException: the handler names the transport's errors alone
OnExceptionTransportOnly(e) ==
    IF e = "OpenAIError"
    THEN [text |-> <<>>, store |-> FALSE, caught |-> "none", raised |-> e]
    ELSE [text |-> Fallback, store |-> FALSE, caught |-> e, raised |-> "none"]

\* fetch_summary, lines 151-153: `except Exception as e` catches e and the
\* fallback is returned
OnException(e) ==
    [text |-> Fallback, store |-> FALSE, caught |-> e, raised |-> "none"]

\* a mutant of OnBadStatus: the fallback is written to the cache
OnBadStatusCached ==
    [text |-> Fallback, store |-> TRUE, caught |-> "none", raised |-> "none"]

\* fetch_summary, lines 135-137: a status other than 200 returns the fallback
OnBadStatus ==
    [text |-> Fallback, store |-> FALSE, caught |-> "none", raised |-> "none"]

\* fetch_summary, lines 135-153, on the outcome o of the POST: the text
\* returned, whether it is written to the cache, the exception the handler
\* of line 151 caught and the exception that left fetch_summary
Resume(o) ==
    IF o.kind = "exception" THEN OnException(o.exc)
    ELSE IF o.status # 200 THEN OnBadStatus
    ELSE IF ~o.json THEN OnException("JSONDecodeError")
    ELSE IF ~o.has_choices \/ Len(o.choices) = 0 THEN OnException("OpenAIError")
    ELSE [text |-> FormatSentence(o.choices[1]), store |-> TRUE,
          caught |-> "none", raised |-> "none"]

\* the result of a task is a summary, not the fallback
NotFallback(r) == r[2] # Fallback

\* a mutant of Gather: the results of the fetches that failed are left out
GatherSkipsFailed(ts) == SelectSeq([t \in 1..Len(ts) |-> ts[t].result], NotFallback)

\* a mutant of Gather: the results in the reverse of the task order
GatherReversed(ts) == [t \in 1..Len(ts) |-> ts[Len(ts) + 1 - t].result]

\* asyncio.gather(*tasks): the results in task order
Gather(ts) == [t \in 1..Len(ts) |-> ts[t].result]

\* every fetch of the invocation ended in a summary from the API or the cache
AllFetchesSucceeded(ts) ==
    \A t \in 1..Len(ts) :
        ts[t].kind = "fetch" =>
            /\ ts[t].pc = "done"
            /\ \/ ts[t].response.kind = "none"
               \/ Resume(ts[t].response).store

----------------------------------------------------------------------------
(* Inputs *)

Small == <<[w |-> "x", n |-> 1]>>
AtLimit == <<[w |-> "x", n |-> MAX_TOKENS - 1]>>
OverLimit == <<[w |-> "x", n |-> MAX_TOKENS]>>

\* the files a repository is drawn from
InputFiles == { << <<"a">>, Small >>,
                << <<"a", "b">>, AtLimit >>,
                << <<"a", "b">>, OverLimit >>,
                << <<"c">>, OverLimit >>,
                << <<"c">>, Small >> }

\* "p {0}", "p" (no replacement field) and "p {0} {1}" (IndexError)
Templates == { <<Word("p"), Slot(0)>>,
               <<Word("p")>>,
               <<Word("p"), Slot(0), Slot(1)>> }

IgnoreLists == { <<>>,
                 << <<"a", "b", "c">>, <<"b">> >>,
                 << <<>> >> }

\* a dict's items: the paths are distinct
FileMaps ==
    { fs \in UNION { [1..n -> InputFiles] : n \in 0..MaxFiles } :
        \A i, j \in 1..Len(fs) : fs[i][1] = fs[j][1] => i = j }

----------------------------------------------------------------------------
(* code_to_text *)

Init ==
    /\ files \in FileMaps
    /\ ignore_files \in IgnoreLists
    /\ prompt \in Templates
    /\ pc = "idle"
    /\ http_client = [state |-> "none", posts |-> 0, auth |-> <<>>]
    /\ environ \in Environs
    /\ cache = EmptyCache
    /\ tasks = <<>>
    /\ results = <<>>
    /\ now = 0
    /\ run = 1
    /\ prev_ok = FALSE

\* lines 58-85: the client and the cache are made, the loop creates the
\* tasks, and code_to_text suspends in gather (or prompt.format raised)
CodeToText ==
    /\ pc = "idle"
    /\ LET sched == ScheduleFrom(1, files, ignore_files, prompt)
       IN  /\ tasks' = sched.tasks
           /\ pc' = IF sched.raised THEN "failed" ELSE "gather"
    /\ http_client' = GetHttpClient
    /\ cache' = GetCache
    /\ UNCHANGED <<files, ignore_files, prompt, results, now, run, prev_ok, environ>>

\* lines 182-184: a null_summary task runs
NullSummary(t) ==
    /\ IsNext(t)
    /\ tasks[t].kind = "null"
    /\ tasks' = [tasks EXCEPT ![t].pc = "done",
                              ![t].result = <<tasks[t].file, tasks[t].summary>>]
    /\ UNCHANGED <<files, ignore_files, prompt, pc, http_client, cache, results,
                   now, run, prev_ok, environ>>

\* lines 115-133: a fetch_summary task runs up to its await; the TTLCache
\* reads the clock once in `prompt in cache` and once more in cache[prompt]
FetchSummary(t) ==
    /\ IsNext(t)
    /\ tasks[t].kind = "fetch"
    /\ \E t1 \in Times, t2 \in Times :
        /\ now <= t1 /\ t1 <= t2
        /\ CacheContains(cache, tasks[t].prompt, t1) \/ t2 = t1
        /\ tasks' = [tasks EXCEPT ![t] = StartFetch(tasks[t], cache, t1, t2)]
        /\ now' = t2
        /\ http_client' =
              IF StartFetch(tasks[t], cache, t1, t2).pc = "awaiting"
              THEN Post(http_client, environ)
              ELSE http_client
    /\ UNCHANGED <<files, ignore_files, prompt, pc, cache, results, run, prev_ok, environ>>

\* lines 135-153: the transport ends the POST of task t with outcome o once
\* the ready queue has drained, and the task runs to its return
Respond(t, o) ==
    /\ t \in 1..Len(tasks)
    /\ tasks[t].pc = "awaiting"
    /\ o \in Answers(environ)
    /\ ReadyQueueDrained
    /\ \E time \in Times :
        /\ now <= time
        /\ (~Resume(o).store) => time = now
        /\ now' = time
        /\ cache' = IF Resume(o).store
                    THEN CacheSet(cache, tasks[t].prompt, Resume(o).text, time)
                    ELSE cache
    /\ tasks' = [tasks EXCEPT ![t] =
          IF Resume(o).raised # "none"
          THEN [@ EXCEPT !.pc = "raised", !.response = o, !.exc = Resume(o).raised]
          ELSE [@ EXCEPT !.pc = "done", !.response = o,
                         !.caught = Resume(o).caught,
                         !.result = <<tasks[t].file, Resume(o).text>>]]
    /\ UNCHANGED <<files, ignore_files, prompt, pc, http_client, results, run, prev_ok, environ>>

\* lines 85-87: gather hands back the results once every task is done, or
\* raises the exception of a task that raised
GatherReturn ==
    /\ pc = "gather"
    /\ \/ \E t \in 1..Len(tasks) : tasks[t].pc = "raised"
       \/ \A t \in 1..Len(tasks) : tasks[t].pc = "done"
    /\ IF \E t \in 1..Len(tasks) : tasks[t].pc = "raised"
       THEN pc' = "failed" /\ results' = results
       ELSE pc' = "done" /\ results' = Gather(tasks)
    /\ UNCHANGED <<files, ignore_files, prompt, http_client, cache, tasks, now,
                   run, prev_ok, environ>>

\* the caller invokes code_to_text again with the same arguments
CallAgain ==
    /\ pc \in {"done", "failed"}
    /\ run < MaxRuns
    /\ run' = run + 1
    /\ prev_ok' = (pc = "done" /\ AllFetchesSucceeded(tasks))
    /\ pc' = "idle"
    /\ tasks' = <<>>
    /\ results' = <<>>
    /\ UNCHANGED <<files, ignore_files, prompt, http_client, cache, now, environ>>

Next ==
    \/ CodeToText
    \/ \E t \in 1..MaxFiles : NullSummary(t)
    \/ \E t \in 1..MaxFiles : FetchSummary(t)
    \/ \E t \in 1..MaxFiles, o \in AllOutcomes : Respond(t, o)
    \/ GatherReturn
    \/ CallAgain

Spec == Init /\ [][Next]_vars

\* every step the event loop can take is taken, and every POST ends
FairSpec ==
    /\ Spec
    /\ WF_vars(CodeToText)
    /\ WF_vars(GatherReturn)
    /\ \A t \in 1..MaxFiles :
          /\ WF_vars(NullSummary(t))
          /\ WF_vars(FetchSummary(t))
          /\ WF_vars(\E o \in AllOutcomes : Respond(t, o))

----------------------------------------------------------------------------
(* fetch_summary called on its own: a caller holding a client and a cache,
   possibly filled earlier, starts fetch_summary tasks on the event loop *)

PromptX == <<[w |-> "p", n |-> 1], [w |-> "x", n |-> 1]>>
PromptY == <<[w |-> "p", n |-> 1], [w |-> "y", n |-> 1]>>

\* empty, or {PROMPT_X: "cached summary"} written at time 0 or at time -1
GivenCaches ==
    { EmptyCache,
      [k \in {PromptX} |-> [value |-> <<"c">>, expires |-> 0 + TTL]],
      [k \in {PromptX} |-> [value |-> <<"c">>, expires |-> -1 + TTL]] }

InitFetch ==
    /\ files = <<>>
    /\ ignore_files = <<>>
    /\ prompt = <<>>
    /\ pc = "direct"
    /\ http_client = GetHttpClient
    /\ environ \in Environs
    /\ cache \in GivenCaches
    /\ tasks = <<>>
    /\ results = <<>>
    /\ now \in Times
    /\ run = 1
    /\ prev_ok = FALSE

\* asyncio.create_task(fetch_summary(file, p, http_client, cache))
CallFetch(file, p) ==
    /\ pc = "direct"
    /\ Len(tasks) < MaxCalls
    /\ tasks' = Append(tasks, FetchTask(file, p))
    /\ UNCHANGED <<files, ignore_files, prompt, pc, http_client, cache, results,
                   now, run, prev_ok, environ>>

NextFetch ==
    \/ \E file \in {<<"a">>, <<"c">>}, p \in {PromptX, PromptY} : CallFetch(file, p)
    \/ \E t \in 1..MaxCalls : FetchSummary(t)
    \/ \E t \in 1..MaxCalls, o \in AllOutcomes : Respond(t, o)

SpecFetch == InitFetch /\ [][NextFetch]_vars


----------------------------------------------------------------------------
(* The claims *)

\* the path contains an entry of the ignore list as a substring
PathIgnored(path) ==
    \E j \in 1..Len(ignore_files) : IsSubstring(ignore_files[j], path)

\* the contents of the input file at path
ContentsOf(path) ==
    files[CHOOSE i \in 1..Len(files) : files[i][1] = path][2]

\* the whitespace-token count of the prompt rendered for the file at path
TokensOf(path) == PromptLen(Format(prompt, ContentsOf(path)).text)

\* C1: the result code_to_text returns holds exactly one entry for each
\* input file whose path contains no ignore-list entry as a substring and
\* none for the others, so its size is the number of files minus the
\* number of ignored files.
C1_OneEntryPerKeptFile ==
    pc = "done" =>
        /\ \A i \in 1..Len(files) :
              Cardinality({k \in 1..Len(results) : results[k][1] = files[i][1]})
                  = IF PathIgnored(files[i][1]) THEN 0 ELSE 1
        /\ \A k \in 1..Len(results) :
              /\ Len(results[k]) = 2
              /\ \E i \in 1..Len(files) : files[i][1] = results[k][1]
        /\ Len(results) =
              Len(files) - Cardinality({i \in 1..Len(files) : PathIgnored(files[i][1])})

C1_Witness ==
    /\ pc = "done"
    /\ \E i \in 1..Len(files) : PathIgnored(files[i][1])
    /\ \E i \in 1..Len(files) : ~PathIgnored(files[i][1])
    /\ Len(results) >= 1
    /\ Len(results) < Len(files)

\* C5: a non-ignored file whose rendered prompt has more than 4096
\* whitespace-delimited tokens never has a POST issued for it and never
\* touches the cache; its result is (path, the message that the prompt
\* exceeds the max token limit).
C5_OverLimitNeverFetched ==
    /\ \A t \in 1..Len(tasks) :
          TokensOf(tasks[t].file) > MAX_TOKENS =>
              /\ tasks[t].pc \in {"created", "done"}
              /\ tasks[t].response = NoResponse
              /\ Format(prompt, ContentsOf(tasks[t].file)).text \notin DOMAIN cache
              /\ tasks[t].pc = "done" =>
                    tasks[t].result =
                        <<tasks[t].file, LimitMessage(TokensOf(tasks[t].file))>>
              /\ pc = "done" =>
                    results[t] =
                        <<tasks[t].file, LimitMessage(TokensOf(tasks[t].file))>>
    /\ pc \in {"gather", "done"} =>
          /\ http_client.posts <=
                Cardinality({t \in 1..Len(tasks) : TokensOf(tasks[t].file) <= MAX_TOKENS})
          /\ \A i \in 1..Len(files) :
                (~PathIgnored(files[i][1]) /\ TokensOf(files[i][1]) > MAX_TOKENS) =>
                    \E t \in 1..Len(tasks) : tasks[t].file = files[i][1]

C5_Witness ==
    /\ pc = "done"
    /\ \E t \in 1..Len(tasks) :
          /\ TokensOf(tasks[t].file) = MAX_TOKENS + 1
          /\ results[t][2] = <<"Prompt exceeds max token limit: ", "4097">>
    /\ http_client.posts >= 1

\* the POST of a task ended in status 500, a timeout or a transport error
FailedRequest(o) ==
    o.kind = "exception" \/ (o.kind = "response" /\ o.status = 500)

\* the POST of a task ended in status 200 with a first choice
SucceededRequest(o) ==
    o.kind = "response" /\ o.status = 200 /\ o.json /\ o.has_choices /\ o.choices # <<>>

\* status 200 and a body with no "choices" key or an empty "choices" list
MissingChoices(o) ==
    o.kind = "response" /\ o.status = 200 /\ o.json
        /\ (~o.has_choices \/ o.choices = <<>>)

\* C3: in a batch, a file whose request ends in status 500, a timeout or an
\* error gets the fallback string, and every sibling whose own request
\* succeeds gets its own summary: no task raises, none is cancelled, and
\* code_to_text fails for no task's sake.
C3_FailureStaysWithItsFile ==
    /\ \A t \in 1..Len(tasks) :
          /\ tasks[t].pc \in {"created", "awaiting", "done"}
          /\ (tasks[t].pc = "done" /\ FailedRequest(tasks[t].response)) =>
                tasks[t].result = <<tasks[t].file, Fallback>>
          /\ (tasks[t].pc = "done" /\ SucceededRequest(tasks[t].response)) =>
                tasks[t].result =
                    <<tasks[t].file, FormatSentence(tasks[t].response.choices[1])>>
          /\ pc = "done" => results[t] = tasks[t].result
    /\ pc = "failed" => tasks = <<>>

C3_Witness ==
    /\ pc = "done"
    /\ \E t, u \in 1..Len(tasks) :
          /\ tasks[t].response.status = 500
          /\ results[t] = <<tasks[t].file, Fallback>>
          /\ SucceededRequest(tasks[u].response)
          /\ results[u] = <<tasks[u].file, <<"s">> >>

C7_TransportReleased ==
    pc \in {"done", "failed"} => http_client.state = "closed"

\* C8: when code_to_text is run a second time with the same arguments after
\* a run whose fetches all succeeded, and no cache entry has expired (the
\* clock has not moved) or been evicted, the second run issues no POST.
C8_SecondRunNoCalls ==
    (run = 2 /\ prev_ok /\ now = 0 /\ pc \in {"gather", "done"}) =>
        http_client.posts = 0

\* the POST ended in a way fetch_summary counts as an error
ErrorCondition(o) ==
    \/ o.kind = "exception"
    \/ o.kind = "response" /\ (o.status # 200 \/ ~o.json \/ MissingChoices(o))

\* C2: fetch_summary never raises outward: whatever the cache holds (an
\* entry may expire while the task runs), whatever the transport does and
\* however the tasks interleave, it ends by returning (path, text) with its
\* own path, and text is the fallback whenever an error condition occurred.
C2_NeverRaises ==
    \A t \in 1..Len(tasks) :
        /\ tasks[t].pc # "raised"
        /\ tasks[t].pc = "done" =>
              /\ tasks[t].result[1] = tasks[t].file
              /\ ErrorCondition(tasks[t].response) => tasks[t].result[2] = Fallback

\* C4: a fetch_summary call whose rendered prompt is in the cache, unexpired
\* at the readings of the clock the call makes, returns (path, cached
\* value), issues no POST and leaves the cache as it was.
C4_CacheHitAnswersFromCache ==
    [][\A t \in 1..Len(tasks) :
          ( /\ tasks[t].pc = "created"
            /\ tasks'[t].pc # "created"
            /\ CacheContains(cache, tasks[t].prompt, now') ) =>
          ( /\ tasks'[t].pc = "done"
            /\ tasks'[t].result = <<tasks[t].file, cache[tasks[t].prompt].value>>
            /\ http_client' = http_client
            /\ cache' = cache )]_vars

C4_Witness ==
    /\ cache = [k \in {PromptX} |-> [value |-> <<"c">>, expires |-> TTL]]
    /\ http_client.posts = 0
    /\ \E t \in 1..Len(tasks) :
          /\ tasks[t].prompt = PromptX
          /\ tasks[t].pc = "done"
          /\ tasks[t].response = NoResponse
          /\ tasks[t].result = <<tasks[t].file, <<"c">> >>

\* C10: only a fully successful fetch changes the cache: a step of
\* fetch_summary that ends in a cache hit, a status other than 200, a
\* malformed body, a timeout or another caught exception leaves the cache as
\* it was, so neither the fallback nor the token-limit message is ever a
\* cached value; a successful fetch stores the normalized text it returns
\* under its rendered prompt and changes no other live entry.
C10_OnlySuccessWritesCache ==
    [][ /\ \A t \in 1..Len(tasks) :
              ( /\ tasks'[t].pc # tasks[t].pc
                /\ tasks'[t].pc \in {"done", "raised"}
                /\ ~SucceededRequest(tasks'[t].response) ) => cache' = cache
        /\ \A t \in 1..Len(tasks) :
              ( /\ tasks[t].pc = "awaiting"
                /\ tasks'[t].pc = "done"
                /\ SucceededRequest(tasks'[t].response) ) =>
              ( /\ tasks'[t].result[2] = FormatSentence(tasks'[t].response.choices[1])
                /\ tasks[t].prompt \in DOMAIN cache'
                /\ cache'[tasks[t].prompt].value = tasks'[t].result[2]
                /\ \A k \in DOMAIN cache' \ {tasks[t].prompt} :
                      k \in DOMAIN cache /\ cache'[k] = cache[k] )
        /\ cache' # cache =>
              \E t \in 1..Len(tasks) :
                  /\ tasks[t].pc = "awaiting"
                  /\ tasks'[t].pc = "done"
                  /\ SucceededRequest(tasks'[t].response)
        /\ \A k \in DOMAIN cache' :
              /\ cache'[k].value # Fallback
              /\ cache'[k].value # <<>> =>
                    cache'[k].value[1] # "Prompt exceeds max token limit: " ]_vars

\* a cache hit, a failed fetch and a successful fetch have all happened, and
\* the cache holds the given entry and the successful fetch's text
C10_Witness ==
    /\ PromptX \in DOMAIN cache /\ cache[PromptX].value = <<"c">>
    /\ PromptY \in DOMAIN cache /\ cache[PromptY].value = <<"s">>
    /\ \E t, u \in 1..Len(tasks) :
          /\ tasks[t].pc = "done" /\ tasks[t].response = NoResponse
          /\ tasks[u].pc = "done" /\ tasks[u].prompt = PromptY
          /\ tasks[u].response = Resp(200, TRUE, TRUE, << <<" ", "\"", "s", "\"">> >>)
          /\ tasks[u].result[2] = <<"s">>

\* prompt.format raises for a file the loop of code_to_text reaches
TemplateRaises ==
    \E i \in 1..Len(files) :
        ~PathIgnored(files[i][1]) /\ ~Format(prompt, files[i][2]).ok

\* code_to_text has returned, every task is finished, and the results hold
\* one entry with a text for each non-ignored file
Completed ==
    /\ pc = "done"
    /\ \A t \in 1..Len(tasks) : tasks[t].pc = "done"
    /\ Len(results) =
          Cardinality({i \in 1..Len(files) : ~PathIgnored(files[i][1])})
    /\ \A i \in 1..Len(files) :
          ~PathIgnored(files[i][1]) =>
              \E k \in 1..Len(results) :
                  /\ results[k][1] = files[i][1]
                  /\ results[k][2] # <<>>

\* C9 as stated: when every POST issued ends, every call of code_to_text
\* returns, with one entry carrying a text for each non-ignored file.
C9_AlwaysReturns ==
    (pc = "idle") ~> Completed

\* C9, amended: when every POST issued ends, every call of code_to_text
\* whose prompt template renders returns, with every task finished and one
\* entry carrying a text for each non-ignored file; a call whose template
\* raises for a non-ignored file fails instead, before any task is created.
C9_ReturnsUnlessTemplateRaises ==
    (pc = "idle") ~>
        \/ ~TemplateRaises /\ Completed
        \/ TemplateRaises /\ pc = "failed" /\ tasks = <<>>

C9_Witness ==
    /\ Completed
    /\ Len(results) = 2
    /\ \E t \in 1..Len(tasks) :
          /\ tasks[t].response = Exc("ReadTimeout")
          /\ results[t][2] = Fallback
    /\ \E t \in 1..Len(tasks) : SucceededRequest(tasks[t].response)

\* the cache c holds key, unexpired at the clock value time
Live(c, key, time) ==
    key \in DOMAIN c /\ time < c[key].expires

\* this step is task t resuming on status 200 with a first choice: the
\* step that writes the cache
WriteStep(t) ==
    /\ tasks[t].pc = "awaiting"
    /\ tasks'[t].pc = "done"
    /\ SucceededRequest(tasks'[t].response)

\* C11 as stated: a cache entry is never written again while it is live:
\* for every rendered prompt at most one write happens to the live key.
C11_NeverRewritten ==
    [][\A t \in 1..Len(tasks) :
          WriteStep(t) => ~Live(cache, tasks[t].prompt, now')]_vars

\* C11, amended: a cache entry is created only by a successful fetch, and a
\* fetch that finds the entry live answers from it and never writes; a live
\* entry is written again only in the double-fetch race, by a task for the
\* identical prompt that missed the cache before another such task wrote it.
C11_RewrittenOnlyByDoubleFetch ==
    [][ /\ cache' # cache => \E t \in 1..Len(tasks) : WriteStep(t)
        /\ \A t \in 1..Len(tasks) :
              (tasks[t].pc = "created" /\ tasks'[t].pc \in {"done", "raised"}) =>
                  cache' = cache
        /\ \A t \in 1..Len(tasks) :
              (WriteStep(t) /\ Live(cache, tasks[t].prompt, now')) =>
                  \E u \in 1..Len(tasks) :
                      /\ u # t
                      /\ tasks[u].prompt = tasks[t].prompt
                      /\ tasks[u].pc = "done"
                      /\ SucceededRequest(tasks[u].response)
                      /\ cache[tasks[t].prompt].value = tasks[u].result[2] ]_vars

\* two tasks for one prompt both fetched with success and each wrote the
\* entry: their texts differ and the cache holds one of them, still live
C11_Witness ==
    \E t, u \in 1..Len(tasks) :
        /\ t # u
        /\ tasks[t].prompt = tasks[u].prompt
        /\ tasks[t].pc = "done" /\ SucceededRequest(tasks[t].response)
        /\ tasks[u].pc = "done" /\ SucceededRequest(tasks[u].response)
        /\ tasks[t].result[2] # tasks[u].result[2]
        /\ Live(cache, tasks[t].prompt, now)
        /\ cache[tasks[t].prompt].value = tasks[u].result[2]

\* C12: with no API key in the environment no request is sent and no file
\* gets a fallback result: the defect is found before any request and
\* code_to_text fails instead of returning.
C12_MissingKeyIsFatal ==
    environ = "None" =>
        /\ http_client.posts = 0
        /\ http_client.auth = <<>>
        /\ \A t \in 1..Len(tasks) : tasks[t].kind = "fetch" => tasks[t].result = <<>>
        /\ pc = "done" => \A t \in 1..Len(tasks) : tasks[t].kind # "fetch"

\* C13: a cache entry whose time-to-live has run out (600 seconds after its
\* insertion) is absent for a lookup: a fetch_summary call made then for
\* that prompt misses, issues a POST and does not return the stale value.
C13_ExpiredEntryIsAbsent ==
    [][\A t \in 1..Len(tasks) :
          ( /\ tasks[t].pc = "created"
            /\ tasks'[t].pc # "created"
            /\ tasks[t].prompt \in DOMAIN cache
            /\ now >= cache[tasks[t].prompt].expires ) =>
          ( /\ tasks'[t].pc = "awaiting"
            /\ tasks'[t].result = <<>>
            /\ http_client'.posts = http_client.posts + 1 )]_vars

\* the entry written at time -1 is 601 seconds old, still stored, and the
\* call for its prompt is waiting for its POST
C13_Witness ==
    /\ now = TTL
    /\ PromptX \in DOMAIN cache
    /\ cache[PromptX] = [value |-> <<"c">>, expires |-> TTL - 1]
    /\ http_client.posts = 1
    /\ Len(tasks) = 1
    /\ tasks[1].prompt = PromptX
    /\ tasks[1].pc = "awaiting"

\* C14: a fetch_summary call that misses the cache issues exactly one POST,
\* whatever the outcome: the POSTs the client was asked for are as many as
\* the calls that missed, before and after their requests end.
C14_OnePostPerMiss ==
    http_client.posts =
        Cardinality({t \in 1..Len(tasks) :
            tasks[t].pc = "awaiting" \/ tasks[t].response.kind # "none"})

C14_Witness ==
    /\ Len(tasks) = 1
    /\ tasks[1].pc = "done"
    /\ tasks[1].response.status = 500
    /\ tasks[1].result[2] = Fallback
    /\ http_client.posts = 1

\* task t has sent its POST
Posted(t) ==
    tasks[t].pc = "awaiting" \/ tasks[t].response.kind # "none"

\* tasks t and u are two fetch tasks of the batch for one rendered prompt
SamePrompt(t, u) ==
    /\ t # u
    /\ tasks[t].kind = "fetch"
    /\ tasks[u].kind = "fetch"
    /\ tasks[t].prompt = tasks[u].prompt

\* C15: the double-fetch race: of two tasks of one batch for the identical,
\* uncached prompt, neither finds the other's summary: as long as one of
\* them has not looked the cache up nothing is written for the prompt, and
\* once one has written back both have sent their POST.
C15_BothMissBeforeWriteBack ==
    \A t, u \in 1..Len(tasks) :
        SamePrompt(t, u) =>
            /\ tasks[t].pc = "created" => tasks[t].prompt \notin DOMAIN cache
            /\ tasks[t].prompt \in DOMAIN cache => (Posted(t) /\ Posted(u))
            /\ tasks[t].pc # "raised"

\* both tasks have missed and sent their POST, and nothing is written yet
C15_Witness ==
    /\ pc = "gather"
    /\ Len(tasks) = 2
    /\ SamePrompt(1, 2)
    /\ tasks[1].pc = "awaiting"
    /\ tasks[2].pc = "awaiting"
    /\ tasks[1].prompt \notin DOMAIN cache
    /\ http_client.posts = 2

\* this step is task t resuming with a response of the server
ResponseStep(t) ==
    /\ tasks[t].pc = "awaiting"
    /\ tasks'[t].pc # "awaiting"
    /\ tasks'[t].response.kind = "response"

\* this step gives task t the normalized first choice and writes the cache
SummaryAndWrite(t) ==
    /\ tasks'[t].pc = "done"
    /\ tasks'[t].result = <<tasks[t].file, FormatSentence(tasks'[t].response.choices[1])>>
    /\ tasks[t].prompt \in DOMAIN cache'
    /\ cache'[tasks[t].prompt] =
          [value |-> FormatSentence(tasks'[t].response.choices[1]),
           expires |-> now' + TTL]

\* this step gives task t the fallback, raises nothing and writes nothing
FallbackNoWrite(t) ==
    /\ tasks'[t].pc = "done"
    /\ tasks'[t].result = <<tasks[t].file, Fallback>>
    /\ cache' = cache

\* C16 as stated: exactly the statuses outside 200..299 are failures: each
\* of them yields the fallback without raising, and each status in 200..299
\* with a non-empty choices list yields the normalized first choice and a
\* cache write.
C16_Non2xxIsFailure ==
    [][\A t \in 1..Len(tasks) :
          ResponseStep(t) =>
              LET o == tasks'[t].response
              IN  /\ o.status \notin 200..299 => FallbackNoWrite(t)
                  /\ (o.status \in 200..299 /\ o.json /\ o.has_choices /\ o.choices # <<>>)
                        => SummaryAndWrite(t) ]_vars

\* the tasks scheduled for the file at path
TasksOf(path) == {t \in 1..Len(tasks) : tasks[t].file = path}

\* C17: once the tasks are scheduled, each non-ignored file has exactly one
\* task: the placeholder with the limit message if and only if its rendered
\* prompt has more than MAX_TOKENS whitespace tokens, and otherwise (the
\* count MAX_TOKENS included) one fetch task for the rendered prompt.
C17_BudgetCheckIsStrict ==
    pc \in {"gather", "done"} =>
        \A i \in 1..Len(files) :
            LET path == files[i][1]
            IN  ~PathIgnored(path) =>
                  /\ Cardinality(TasksOf(path)) = 1
                  /\ \A t \in TasksOf(path) :
                        /\ tasks[t].kind = "null" <=> TokensOf(path) > MAX_TOKENS
                        /\ tasks[t].kind = "fetch" <=> TokensOf(path) <= MAX_TOKENS
                        /\ tasks[t].kind = "null" =>
                              tasks[t].summary = LimitMessage(TokensOf(path))
                        /\ tasks[t].kind = "fetch" =>
                              tasks[t].prompt = Format(prompt, ContentsOf(path)).text

\* a file of exactly MAX_TOKENS tokens was fetched and a file of
\* MAX_TOKENS + 1 tokens got the placeholder
C17_Witness ==
    /\ pc = "done"
    /\ \E t, u \in 1..Len(tasks) :
        /\ TokensOf(tasks[t].file) = MAX_TOKENS
        /\ tasks[t].kind = "fetch"
        /\ tasks[t].response.kind = "response"
        /\ TokensOf(tasks[u].file) = MAX_TOKENS + 1
        /\ tasks[u].kind = "null"
        /\ tasks[u].result[2] = LimitMessage(MAX_TOKENS + 1)

\* the input files that are not ignored and within the token budget
WithinBudget ==
    {i \in 1..Len(files) :
        ~PathIgnored(files[i][1]) /\ TokensOf(files[i][1]) <= MAX_TOKENS}

\* C18: within one invocation of code_to_text no fetch task takes the
\* cache-hit path: every fetch task that has started has sent a POST, so
\* the POSTs of the invocation are as many as its started fetch tasks and,
\* when it returns, as many as the non-ignored files within the budget,
\* identical prompts included.
C18_NoHitWithinInvocation ==
    /\ \A t \in 1..Len(tasks) :
          (tasks[t].kind = "fetch" /\ tasks[t].pc # "created") =>
              (Posted(t) /\ tasks[t].pc # "raised")
    /\ pc \in {"gather", "done"} =>
          http_client.posts =
              Cardinality({t \in 1..Len(tasks) :
                  tasks[t].kind = "fetch" /\ tasks[t].pc # "created"})
    /\ pc = "done" => http_client.posts = Cardinality(WithinBudget)

\* two files with one prompt were both fetched with success in a returned
\* invocation: two POSTs, one cache entry
C18_Witness ==
    /\ pc = "done"
    /\ Len(tasks) = 2
    /\ SamePrompt(1, 2)
    /\ SucceededRequest(tasks[1].response)
    /\ SucceededRequest(tasks[2].response)
    /\ http_client.posts = 2
    /\ Cardinality(DOMAIN cache) = 1

\* the input file f is not ignored
KeptFile(f) == ~PathIgnored(f[1])

\* C19: the results are in scheduling order whatever the completion order:
\* the k-th result carries the path of the k-th non-ignored file of the
\* input, and the prompt of its task was rendered from that file's contents.
C19_ResultsInSchedulingOrder ==
    pc = "done" =>
        LET kept == SelectSeq(files, KeptFile)
        IN  /\ Len(results) = Len(kept)
            /\ \A k \in 1..Len(results) :
                  /\ results[k][1] = kept[k][1]
                  /\ tasks[k].file = kept[k][1]
                  /\ tasks[k].kind = "fetch" =>
                        tasks[k].prompt = Format(prompt, kept[k][2]).text

\* the second file's request completed first: its cache entry, written at
\* time 0, was dropped as expired when the first file's was written at TTL
C19_Witness ==
    /\ pc = "done"
    /\ Len(results) = 2
    /\ SucceededRequest(tasks[1].response)
    /\ SucceededRequest(tasks[2].response)
    /\ tasks[1].prompt # tasks[2].prompt
    /\ tasks[1].prompt \in DOMAIN cache
    /\ tasks[2].prompt \notin DOMAIN cache
    /\ results[1][1] = files[1][1]
    /\ results[2][1] = files[2][1]

====
